---- MODULE Spec2Model ----
(***************************************************************************)
(* GentleOmega: hash-chained ledger (app/blockchain_client.py), chain      *)
(* reconciliation cycle (app/chain_orchestrator.py), link repair           *)
(* (blockchain_chain_repair.py), the bounded task dispatcher               *)
(* (app/orchestrator.py) and the startup / shutdown of the served          *)
(* application (app/app.py).                                               *)
(*                                                                         *)
(* Conventions.  SQL NULL / Python None is the empty tuple <<>>.  A hash   *)
(* is the tuple of the canonical content it digests (sha256 is taken to be *)
(* collision free), so two hashes are equal exactly when their inputs are. *)
(* A JSON object is a function from its keys to its values.                *)
(***************************************************************************)
EXTENDS Integers, Sequences, FiniteSets, TLC

VARIABLES
    ledger,            \* table blockchain_ledger: rows in id order (id = index)
    pods_poe,          \* table pods_poe: cache records in created_at order
    now,               \* wall clock / database now()
    call,              \* per caller: the add_to_ledger / record_pod call in progress
    integrity_result,  \* what verify_chain_integrity returned, when the last step was that call
    repair,            \* the repair_chain_links run in progress
    completed,         \* history: number of add_to_ledger calls that have returned
    overlap,           \* history: some ledger call started while another was in progress
    faults,            \* history: number of store statements that failed
    rpc,               \* module-level rpc client: "none" (simulated) or "live"
    cyc,               \* per runner: the orchestration_cycle in progress
    pushes,            \* history: number of transactions broadcast per payload
    push_result,       \* what push_to_chain did, when the last step called it
    enq_done,          \* history: an enqueue pass has completed and no cache record is newer
    obs,               \* history: the entries awaiting the chain at one cycle start
    tasks,             \* status of the OrchestrationTask objects, by task id
    tasks_queue,       \* asyncio.Queue of task ids
    active_tasks,      \* orchestrator.active_tasks (set of task ids)
    coro,              \* coroutines scheduled on the event loop that have not run yet
    is_running,        \* orchestrator.is_running
    background_tasks,  \* orchestrator.background_tasks that have not been cancelled
    health_status,     \* orchestrator.health_status (orchestrator, last_health_check)
    served,            \* the FastAPI application: "new", "up" after startup, "down" after shutdown
    loop_task,         \* the orchestration_loop task created at startup
    tamper             \* history: writes to stored ledger rows from outside the program

ledgerVars == <<ledger, pods_poe, now>>
callVars   == <<call, integrity_result, repair, completed, overlap, faults, tamper>>
reconVars  == <<rpc, cyc, pushes, push_result, enq_done, obs>>
taskVars   == <<tasks, tasks_queue, active_tasks, coro, is_running, background_tasks>>
appVars    == <<health_status, served, loop_task>>
vars == <<ledger, pods_poe, now, call, integrity_result, repair, completed, overlap, faults,
          rpc, cyc, pushes, push_result, enq_done, obs, tasks, tasks_queue, active_tasks, coro, is_running,
          background_tasks, health_status, served, loop_task, tamper>>

None == <<>>

(***************************************************************************)
(* Bounds of the model.                                                    *)
(***************************************************************************)
MaxCalls == 3      \* add_to_ledger calls ever made
MaxClock == 1      \* clock ticks
MaxTasks == 3      \* tasks ever submitted
MaxPods  == 2      \* record_pod calls beside the reconciliation cycles
MaxFaults == 1     \* store statements that fail
MaxPush  == 2      \* direct push_to_chain calls per payload
MaxItems == 1      \* items created through the orchestrator by the served application
MaxJobs  == 2      \* tasks submitted to the dispatcher in SpecDispatch
MaxTamper == 2     \* writes to stored ledger rows from outside the program

Callers == {"app", "listener"}      \* processes holding their own store connection
Runners == {"loop", "manual"}       \* orchestration_loop and POST /chain/cycle

(***************************************************************************)
(* Payloads handed to add_to_ledger / record_pod / record_poe.  The third   *)
(* one carries the key that add_to_ledger itself writes into block_data.   *)
(***************************************************************************)
TsKey == "_hash_timestamp"

DataSet ==
    { [event |-> 1],
      [event |-> 2],
      [event |-> 1, _hash_timestamp |-> <<0>>] }


\* payloads handed to record_pod / record_poe
PodData == {[event |-> 1], [event |-> 2]}

\* a store statement of the step failed (connection lost, statement refused)
Fault(failed) ==
    /\ failed => faults < MaxFaults
    /\ faults' = IF failed THEN faults + 1 ELSE faults

(***************************************************************************)
(* HashChain: BlockchainClient._generate_pod_hash, _compute_chain_hash.    *)
(***************************************************************************)
GeneratePodHash(data) == <<"pod", data>>

\* a hash that would not cover previous_hash
ComputeChainHashNoLink(data, previous_hash, timestamp, clock) ==
    <<data, None, IF timestamp = None THEN <<-(clock + 1)>> ELSE timestamp>>

\* timestamp None: the function stamps the current time itself; that value
\* is written as a negative number, distinct from every stamped timestamp.
ComputeChainHash(data, previous_hash, timestamp, clock) ==
    <<data, previous_hash, IF timestamp = None THEN <<-(clock + 1)>> ELSE timestamp>>

\* json.dumps / json.loads of a serialisable object; the text is written as
\* the one-element tuple of the object it denotes, so that NULL stays apart.
JsonDumps(obj) == <<obj>>
JsonLoads(text) == text[1]

\* a stored block_data from which json.loads and pop get a dict: not NULL
\* (the empty tuple) and the text of one object; a tuple of another length
\* stands for a text that cannot be decoded or that is not an object
IsJsonObject(text) == Len(text) = 1

\* {**data, "_hash_timestamp": timestamp}
EnhancedData(data, timestamp) ==
    [k \in (DOMAIN data) \cup {TsKey} |-> IF k = TsKey THEN timestamp ELSE data[k]]

\* parsed_data.pop("_hash_timestamp", None): <<popped value, remaining dict>>
PopHashTimestamp(parsed) ==
    << IF TsKey \in DOMAIN parsed THEN parsed[TsKey] ELSE None,
       [k \in (DOMAIN parsed) \ {TsKey} |-> parsed[k]] >>

(***************************************************************************)
(* The ledger table.  Schema (columns, defaults, unique keys) is the one   *)
(* the statements of the code rely on.                                     *)
(***************************************************************************)
StatusDefault == "queued"

Row(id, hash, previous_hash, block_data, created_at, poe_hash, status) ==
    [id |-> id, hash |-> hash, previous_hash |-> previous_hash,
     block_data |-> block_data, created_at |-> created_at,
     poe_hash |-> poe_hash, status |-> status,
     tx_hash |-> None, block_number |-> None]

\* unique key on blockchain_ledger.hash (NULLs never conflict)
HashUnique(l, hash) == \A i \in 1..Len(l) : l[i].hash # hash

\* r comes before q in ORDER BY created_at, id
RowBefore(r, q) ==
    \/ r.created_at < q.created_at
    \/ r.created_at = q.created_at /\ r.id < q.id

RECURSIVE OrderIds(_, _)
OrderIds(l, ids) ==
    IF ids = {} THEN <<>>
    ELSE LET m == CHOOSE i \in ids : \A j \in ids \ {i} : RowBefore(l[i], l[j])
         IN  <<m>> \o OrderIds(l, ids \ {m})

\* the rows are stored in the order of (created_at, id) already
InOrder(l) == \A i \in 1..(Len(l) - 1) : RowBefore(l[i], l[i+1])

\* SELECT ... FROM blockchain_ledger ORDER BY created_at, id
SelectEntries(l) ==
    IF InOrder(l) THEN l
    ELSE LET o == OrderIds(l, 1..Len(l)) IN [n \in 1..Len(l) |-> l[o[n]]]

\* BlockchainClient.get_last_ledger_hash; dbok = the store answered
GetLastLedgerHash(l, dbok) ==
    IF ~dbok THEN None
    ELSE IF Len(l) = 0 THEN None
    ELSE SelectEntries(l)[Len(l)].hash

(***************************************************************************)
(* BlockchainClient.verify_chain_integrity.                                *)
(***************************************************************************)
LinkMessages(entries, i) ==
    IF i = 1
    THEN IF entries[1].previous_hash # None
         THEN << <<"genesis_unexpected_previous_hash", entries[1].id>> >>
         ELSE <<>>
    ELSE IF entries[i].previous_hash # entries[i-1].hash
         THEN << <<"previous_hash_mismatch", entries[i].id>> >>
         ELSE <<>>

\* a hash check that passes over an entry whose block_data it cannot read
HashMessagesSkipUnreadable(entries, i, clock) ==
    LET e == entries[i] IN
    IF ~IsJsonObject(e.block_data)
    THEN <<>>
    ELSE LET popped   == PopHashTimestamp(JsonLoads(e.block_data))
             computed == ComputeChainHash(popped[2], e.previous_hash, popped[1], clock)
         IN  IF e.hash # computed
             THEN << <<"hash_verification_failed", e.id>> >>
             ELSE <<>>

HashMessages(entries, i, clock) ==
    LET e == entries[i] IN
    IF ~IsJsonObject(e.block_data)
    THEN << <<"hash_computation_error", e.id>> >>
    ELSE LET popped   == PopHashTimestamp(JsonLoads(e.block_data))
             computed == ComputeChainHash(popped[2], e.previous_hash, popped[1], clock)
         IN  IF e.hash # computed
             THEN << <<"hash_verification_failed", e.id>> >>
             ELSE <<>>

RECURSIVE BrokenLinks(_, _, _)
BrokenLinks(entries, i, clock) ==
    IF i > Len(entries) THEN <<>>
    ELSE LinkMessages(entries, i) \o HashMessages(entries, i, clock)
         \o BrokenLinks(entries, i + 1, clock)

VerifiedCount(entries, clock) ==
    Cardinality({i \in 1..Len(entries) : HashMessages(entries, i, clock) = <<>>})

VerifyChainIntegrity(l, dbok, clock) ==
    IF ~dbok THEN [status |-> "error", error |-> "store"]
    ELSE LET entries == SelectEntries(l) IN
         IF Len(entries) = 0
         THEN [status |-> "success", message |-> "Empty chain is valid", entries |-> 0]
         ELSE LET broken_links == BrokenLinks(entries, 1, clock) IN
              [status       |-> IF broken_links = <<>> THEN "success" ELSE "error",
               entries      |-> Len(entries),
               verified     |-> VerifiedCount(entries, clock),
               broken_links |-> broken_links,
               integrity    |-> IF broken_links = <<>> THEN "valid" ELSE "compromised"]


(***************************************************************************)
(* add_to_ledger, record_pod, record_poe.  A call is two or three store    *)
(* statements; statements of different callers interleave.                 *)
(***************************************************************************)
GeneratePoeHash(pod_hash, result) == <<"poe", pod_hash, result>>

\* pod_payload / poe_payload (the fields that depend on the arguments)
PodPayload(data) ==
    [type |-> "POD", data_hash |-> GeneratePodHash(data), original_data |-> data]

PoePayload(pod_hash, result) ==
    [type |-> "POE", pod_hash |-> pod_hash,
     poe_hash |-> GeneratePoeHash(pod_hash, result), execution_result |-> result]

NoResult == [status |-> "none"]

IdleCall ==
    [pc |-> "idle", kind |-> "add", key |-> None, payload |-> None,
     previous_hash |-> None, timestamp |-> None,
     ledger_result |-> [status |-> "none", ledger_id |-> 0],
     result |-> [status |-> "none", ledger_id |-> 0]]

InFlight == Cardinality({p \in Callers : call[p].pc # "idle"})

\* First statement of add_to_ledger: previous_hash = get_last_ledger_hash(),
\* then the timestamp.  For record_pod / record_poe the payload is built first.
AddRead(p, kind, data, dbok) ==
    /\ call[p].pc = "idle"
    /\ completed + InFlight < MaxCalls
    /\ call' = [call EXCEPT ![p] =
                  [pc |-> "insert", kind |-> kind,
                   key |-> CASE kind = "pod" -> GeneratePodHash(data)
                             [] kind = "poe" -> GeneratePoeHash(GeneratePodHash(data), data)
                             [] OTHER -> None,
                   payload |-> CASE kind = "pod" -> PodPayload(data)
                                 [] kind = "poe" -> PoePayload(GeneratePodHash(data), data)
                                 [] OTHER -> data,
                   previous_hash |-> GetLastLedgerHash(ledger, dbok),
                   timestamp |-> <<now>>,
                   ledger_result |-> IdleCall.ledger_result,
                   result |-> IdleCall.result]]
    /\ overlap' = (overlap \/ \E q \in Callers \ {p} : call[q].pc # "idle")
    /\ UNCHANGED tamper
    /\ Fault(~dbok)
    /\ integrity_result' = NoResult
    /\ UNCHANGED <<ledger, pods_poe, now, repair, completed>>
    /\ UNCHANGED <<reconVars, taskVars, appVars>>

\* The ledger result add_to_ledger returns
LedgerResult(c, l, dbok) ==
    LET entry_hash == ComputeChainHash(c.payload, c.previous_hash, c.timestamp, 0) IN
    IF dbok /\ HashUnique(l, entry_hash)
    THEN [status |-> "success", ledger_id |-> Len(l) + 1]
    ELSE [status |-> "error", ledger_id |-> 0]

\* Second statement of add_to_ledger: the INSERT, and the return.
AddInsert(p, dbok) ==
    LET c == call[p]
        entry_hash == ComputeChainHash(c.payload, c.previous_hash, c.timestamp, 0)
        res == LedgerResult(c, ledger, dbok)
    IN
    /\ c.pc = "insert"
    /\ ledger' = IF res.status = "success"
                 THEN Append(ledger,
                        Row(Len(ledger) + 1, entry_hash, c.previous_hash,
                            JsonDumps(EnhancedData(c.payload, c.timestamp)),
                            now, None, StatusDefault))
                 ELSE ledger
    /\ call' = [call EXCEPT ![p] =
                  IF c.kind = "add"
                  THEN [IdleCall EXCEPT !.ledger_result = res, !.result = res]
                  ELSE [c EXCEPT !.pc = "cache", !.ledger_result = res]]
    /\ completed' = completed + 1
    /\ Fault(~dbok)
    /\ integrity_result' = NoResult
    /\ UNCHANGED <<pods_poe, now, repair, overlap, tamper>>
    /\ UNCHANGED <<reconVars, taskVars, appVars>>

\* INSERT INTO pods_poe ... ON CONFLICT (poe_hash) DO NOTHING / DO UPDATE SET
\* execution_data: an existing record keeps its on_chain flag either way.
CacheInsert(cache, poe_hash) ==
    IF \E i \in 1..Len(cache) : cache[i].poe_hash = poe_hash
    THEN cache
    ELSE Append(cache, [poe_hash |-> poe_hash, on_chain |-> FALSE])

\* What record_pod / record_poe return once add_to_ledger has returned
RecordResult(c) ==
    [status |-> "success", ledger_id |-> c.ledger_result.ledger_id]

\* Rest of record_pod / record_poe: the cache insert (a failure is logged
\* and dropped) and the return value.
RecordCache(p, dbok) ==
    LET c == call[p] IN
    /\ c.pc = "cache"
    /\ pods_poe' = IF dbok THEN CacheInsert(pods_poe, c.key) ELSE pods_poe
    /\ call' = [call EXCEPT ![p] =
                  [IdleCall EXCEPT !.kind = c.kind, !.ledger_result = c.ledger_result,
                                   !.result = RecordResult(c)]]
    /\ Fault(~dbok)
    /\ integrity_result' = NoResult
    /\ UNCHANGED <<ledger, now, repair, completed, overlap, tamper>>
    /\ UNCHANGED <<reconVars, taskVars, appVars>>

\* A caller runs verify_chain_integrity
VerifyIntegrity(dbok) ==
    /\ integrity_result' = VerifyChainIntegrity(ledger, dbok, now)
    /\ Fault(~dbok)
    /\ UNCHANGED <<ledger, pods_poe, now, call, repair, completed, overlap, tamper>>
    /\ UNCHANGED <<reconVars, taskVars, appVars>>

Tick ==
    /\ now < MaxClock
    /\ now' = now + 1
    /\ integrity_result' = NoResult
    /\ UNCHANGED <<ledger, pods_poe, call, repair, completed, overlap, tamper, faults>>
    /\ UNCHANGED <<reconVars, taskVars, appVars>>


(***************************************************************************)
(* ChainRPC: _poe_data_bytes, push_to_chain, get_chain_head,               *)
(* get_tx_receipt.  A payload is <<"pod" | "poe", ...>> (a sha256 digest,  *)
(* 64 hex digits) or <<"raw", n, has0x>>: n hex digits, optionally after   *)
(* "0x".                                                                   *)
(***************************************************************************)
CalldataCap == 12000

Has0x(h)     == h[1] = "raw" /\ h[3]
HexDigits(h) == IF h[1] = "raw" THEN h[2] ELSE 64
StrLen(h)    == HexDigits(h) + (IF Has0x(h) THEN 2 ELSE 0)

\* _poe_data_bytes: strip "0x", pad to even length, refuse more than the cap
PoeDataBytes(h) ==
    LET stripped == IF Has0x(h) THEN StrLen(h) - 2 ELSE StrLen(h)
        padded   == IF stripped % 2 = 1 THEN stripped + 1 ELSE stripped
    IN  IF padded > CalldataCap THEN "too_large" ELSE "ok"

Broadcasts(h) == IF h \in DOMAIN pushes THEN pushes[h] ELSE 0

\* push_to_chain(h).  mode: "none" = no endpoint configured.  node: how the
\* endpoint behaves during this call ("ok", "nonce_fail", "send_fail").
PushToChain(h, mode, node, clock, sent) ==
    IF h = None THEN [outcome |-> "type_error", tx_hash |-> None]
    ELSE IF mode = "none"
    THEN [outcome |-> "tx", tx_hash |-> <<"sim", h, clock>>]
    ELSE IF node = "nonce_fail" THEN [outcome |-> "rpc_error", tx_hash |-> None]
    ELSE IF PoeDataBytes(h) = "too_large" THEN [outcome |-> "too_large", tx_hash |-> None]
    ELSE IF node = "send_fail" THEN [outcome |-> "rpc_error", tx_hash |-> None]
    ELSE [outcome |-> "tx", tx_hash |-> <<"0x", h, sent + 1>>]

NodeStates == {"ok", "nonce_fail", "send_fail"}

SimChainHead  == -1     \* no endpoint
LiveChainHead == 7      \* the block number the endpoint answers with

\* get_chain_head(), endpoint answering
GetChainHead(mode) == IF mode = "none" THEN SimChainHead ELSE LiveChainHead

\* tx_hash.startswith(("sim_", "pod_", "poe_"))
SimulatedTx(tx_hash) == tx_hash[1] \in {"sim", "pod", "poe"}

\* what eth_getTransactionReceipt answers: nothing, a receipt with a status
\* and a blockNumber, a receipt without blockNumber, or an RPC error
Receipts == {"unmined", "success", "failure", "success_no_block", "failure_no_block",
             "rpc_error"}

ReceiptBlock == 5       \* the blockNumber of a receipt that carries one

\* the decision without the test of the blockNumber
ReceiptDecisionAnyBlock(sim, rcpt) ==
    IF sim \/ rcpt \in {"success", "success_no_block"} THEN "confirm"
    ELSE IF rcpt \in {"failure", "failure_no_block"} THEN "fail"
    ELSE "leave"

\* what the loop of verify_chain_integrity does with a pending row: a
\* simulated tx_hash is confirmed; status_ok and blk is not None: confirm;
\* not status_ok and blk is not None: fail; otherwise nothing
ReceiptDecision(sim, rcpt) ==
    IF sim \/ rcpt = "success" THEN "confirm"
    ELSE IF rcpt = "failure" THEN "fail"
    ELSE "leave"

NoPush == [called |-> FALSE]

CountPush(res, h) ==
    IF res.outcome = "tx"
    THEN [x \in (DOMAIN pushes) \cup {h} |-> IF x = h THEN Broadcasts(h) + 1 ELSE pushes[x]]
    ELSE pushes

(***************************************************************************)
(* Statements of chain_orchestrator.py on the two tables.                  *)
(***************************************************************************)
ScanLimit    == 500
SubmitLimit  == 100
VerifyLimit  == 200

Take(seq, n) == IF Len(seq) <= n THEN seq ELSE SubSeq(seq, 1, n)

\* SQL_SCAN_OFFCHAIN with LIMIT limit
ScanOffchainUpTo(cache, limit) ==
    LET off == SelectSeq(cache, LAMBDA c : ~c.on_chain) IN
    Take([n \in 1..Len(off) |-> off[n].poe_hash], limit)

\* SQL_SCAN_OFFCHAIN
ScanOffchain(cache) == ScanOffchainUpTo(cache, ScanLimit)

\* the insert without its ON CONFLICT clause
InsertLedgerNoConflict(l, poe_hash, clock) ==
    Append(l, Row(Len(l) + 1, None, None, None, clock, poe_hash, "queued"))

\* SQL_INSERT_LEDGER: INSERT (poe_hash, 'queued') ON CONFLICT (poe_hash) DO NOTHING
InsertLedger(l, poe_hash, clock) ==
    IF \E i \in 1..Len(l) : l[i].poe_hash = poe_hash
    THEN l
    ELSE Append(l, Row(Len(l) + 1, None, None, None, clock, poe_hash, "queued"))

\* SQL_SELECT_PENDING: the queued rows, by id
SelectQueued(l) ==
    LET q == SelectSeq(l, LAMBDA e : e.status = "queued") IN
    Take([n \in 1..Len(q) |-> [id |-> q[n].id, poe_hash |-> q[n].poe_hash]], SubmitLimit)

\* SQL_MARK_PENDING
MarkPending(l, id, tx_hash) ==
    [l EXCEPT ![id].status = "pending", ![id].tx_hash = tx_hash]

\* SQL_SELECT_UNCONFIRMED: the pending rows, by id
SelectUnconfirmed(l) ==
    LET q == SelectSeq(l, LAMBDA e : e.status = "pending") IN
    Take([n \in 1..Len(q) |->
            [id |-> q[n].id, tx_hash |-> q[n].tx_hash, poe_hash |-> q[n].poe_hash]],
         VerifyLimit)

\* SQL_CONFIRM
Confirm(l, id, block_number) ==
    [l EXCEPT ![id].status = "confirmed", ![id].block_number = <<block_number>>]

\* SQL_FAIL
Fail(l, id) == [l EXCEPT ![id].status = "failed"]

\* SQL_FLAG_ONCHAIN
FlagOnchain(cache, poe_hash) ==
    [n \in 1..Len(cache) |->
        IF cache[n].poe_hash = poe_hash THEN [cache[n] EXCEPT !.on_chain = TRUE]
        ELSE cache[n]]

(***************************************************************************)
(* orchestration_cycle (asyncpg path): every await of a store statement is *)
(* one step; steps of two cycles on the same event loop interleave.        *)
(***************************************************************************)
\* no step of the cycle has just returned, no receipt has just been read
NoReturn == [step |-> "none"]

\* a step has just returned count; changed = history: the number of rows the
\* call's own statements inserted (enqueue) or took from queued to pending
\* (submit)
Returned(step, count, changed) == [step |-> step, count |-> count, changed |-> changed]

IdleCycle ==
    [pc |-> "idle", rows |-> <<>>, count |-> 0, fresh |-> FALSE, second |-> FALSE,
     changed |-> 0, ret |-> NoReturn]

\* a step of the cycle has returned and the next one is entered
EnterStep(pc) == [IdleCycle EXCEPT !.pc = pc]

NoObs == [on |-> FALSE, targets |-> {}, cycles |-> 0]

\* chain submissions that are queued, and cache records that are off chain
Awaiting ==
    {ledger[i].poe_hash : i \in {j \in 1..Len(ledger) :
         ledger[j].status = "queued" /\ ledger[j].poe_hash # None}}
    \cup {pods_poe[n].poe_hash : n \in {m \in 1..Len(pods_poe) : ~pods_poe[m].on_chain}}

\* orchestration_loop as a task: not created ("none"), created and not yet
\* run ("ready"), inside orchestration_cycle ("cycle"), in the sleep that
\* follows a cycle that returned ("sleep"), cancelled.  failed: a store or
\* RPC failure occurred in the cycle that is running or has just returned.
NoLoop == [pc |-> "none", failed |-> FALSE]

\* the step hit a failure: a store statement failed, or push_to_chain raised
StepFailed ==
    \/ faults' > faults
    \/ push_result'.called /\ push_result'.outcome \in {"rpc_error", "type_error"}

\* Every step of enqueue_missing_poe, submit_queued and verify_chain_integrity
\* catches Exception and returns 0, and ping_rpc returns (False, -1):
\* orchestration_cycle returns normally and the loop goes on to sleep(600).
LoopTaskAfter ==
    IF loop_task.pc \in {"none", "cancelled"} \/ cyc'["loop"] = cyc["loop"]
    THEN loop_task
    ELSE [pc     |-> IF cyc'["loop"].pc = "idle" THEN "sleep" ELSE "cycle",
          failed |-> (cyc["loop"].pc # "idle" /\ loop_task.failed) \/ StepFailed]

CycleFrame ==
    /\ integrity_result' = NoResult
    /\ UNCHANGED <<now, call, repair, completed, overlap, tamper, rpc>>
    /\ UNCHANGED <<taskVars, health_status, served>>
    /\ loop_task' = LoopTaskAfter

\* orchestration_cycle is entered: ping_rpc, then enqueue_missing_poe
\* connects.  watch: the entries awaiting the chain at this start are
\* remembered (history only).
StartCycle(r, watch) ==
    /\ cyc[r].pc = "idle"
    /\ cyc' = [cyc EXCEPT ![r] = EnterStep("enq_scan")]
    /\ obs' = IF watch /\ ~obs.on /\ Awaiting # {} /\ \A q \in Runners : cyc[q].pc = "idle"
              THEN [on |-> TRUE, targets |-> Awaiting, cycles |-> 0]
              ELSE obs
    /\ push_result' = NoPush
    /\ UNCHANGED <<ledger, pods_poe, pushes, enq_done, faults>>
    /\ CycleFrame

\* enqueue_missing_poe: rows = fetch(SQL_SCAN_OFFCHAIN); no row or no
\* connection: return 0
EnqueueScanUpTo(r, dbok, limit) ==
    LET rows == IF dbok THEN ScanOffchainUpTo(pods_poe, limit) ELSE <<>> IN
    /\ cyc[r].pc = "enq_scan"
    /\ cyc' = [cyc EXCEPT ![r] =
                 IF Len(rows) = 0
                 THEN [EnterStep("sub_select") EXCEPT !.ret = Returned("enqueue", 0, 0)]
                 ELSE [@ EXCEPT !.pc = "enq_insert", !.rows = rows, !.fresh = dbok,
                                !.second = dbok /\ enq_done]]
    /\ enq_done' = (enq_done \/ (dbok /\ Len(rows) = 0))
    /\ Fault(~dbok)
    /\ push_result' = NoPush
    /\ UNCHANGED <<ledger, pods_poe, pushes, obs>>
    /\ CycleFrame

\* enqueue_missing_poe, the scan, with the statement's own LIMIT
EnqueueScan(r, dbok) == EnqueueScanUpTo(r, dbok, ScanLimit)

\* one turn of the loop over the scanned rows: execute(SQL_INSERT_LEDGER);
\* count += 1 unless the statement raised
EnqueueInsert(r, dbok) ==
    LET c == cyc[r]
        last == Len(c.rows) = 1
        stored == IF dbok THEN InsertLedger(ledger, Head(c.rows), now) ELSE ledger
        count == IF dbok THEN c.count + 1 ELSE c.count
        changed == IF stored # ledger THEN c.changed + 1 ELSE c.changed
    IN
    /\ c.pc = "enq_insert"
    /\ ledger' = stored
    /\ cyc' = [cyc EXCEPT ![r] =
                 IF last
                 THEN [EnterStep("sub_select") EXCEPT
                          !.ret = Returned("enqueue", count, changed)]
                 ELSE [c EXCEPT !.rows = Tail(c.rows),
                                !.count = count,
                                !.changed = changed,
                                !.fresh = @ /\ dbok]]
    /\ enq_done' = (enq_done \/ (last /\ c.fresh /\ dbok))
    /\ Fault(~dbok)
    /\ push_result' = NoPush
    /\ UNCHANGED <<pods_poe, pushes, obs>>
    /\ CycleFrame

\* submit_queued: rows = fetch(SQL_SELECT_PENDING)
SubmitSelect(r, dbok) ==
    LET rows == IF dbok THEN SelectQueued(ledger) ELSE <<>> IN
    /\ cyc[r].pc = "sub_select"
    /\ cyc' = [cyc EXCEPT ![r] =
                 IF Len(rows) = 0
                 THEN [EnterStep("ver_select") EXCEPT !.ret = Returned("submit", 0, 0)]
                 ELSE [@ EXCEPT !.pc = "sub_row", !.rows = rows, !.ret = NoReturn]]
    /\ Fault(~dbok)
    /\ push_result' = NoPush
    /\ UNCHANGED <<ledger, pods_poe, pushes, enq_done, obs>>
    /\ CycleFrame

\* one turn of the loop over the selected rows: push_to_chain, then
\* execute(SQL_MARK_PENDING).  An exception is logged with poe_hash[:16];
\* for a row without poe_hash that raises inside the handler, which ends
\* the loop: submit_queued returns 0.
SubmitRow(r, node, dbok) ==
    LET c == cyc[r]
        row == Head(c.rows)
        res == PushToChain(row.poe_hash, rpc, node, now, Broadcasts(row.poe_hash))
        marked == res.outcome = "tx" /\ dbok
        aborted == row.poe_hash = None
        last == Len(c.rows) = 1 \/ aborted
        count == IF marked THEN c.count + 1 ELSE c.count
        changed == IF marked /\ ledger[row.id].status = "queued"
                   THEN c.changed + 1 ELSE c.changed
    IN
    /\ c.pc = "sub_row"
    /\ res.outcome = "tx" => Broadcasts(row.poe_hash) < MaxPush
    /\ ledger' = IF marked THEN MarkPending(ledger, row.id, res.tx_hash) ELSE ledger
    /\ pushes' = CountPush(res, row.poe_hash)
    /\ push_result' = [called |-> TRUE, payload |-> row.poe_hash, node |-> node,
                       outcome |-> res.outcome]
    /\ cyc' = [cyc EXCEPT ![r] =
                 IF last
                 THEN [EnterStep("ver_select") EXCEPT
                          !.ret = Returned("submit", IF aborted THEN 0 ELSE count, changed)]
                 ELSE [c EXCEPT !.rows = Tail(c.rows),
                                !.count = count,
                                !.changed = changed]]
    /\ Fault((res.outcome = "tx" /\ ~dbok))
    /\ UNCHANGED <<pods_poe, enq_done, obs>>
    /\ CycleFrame

\* the cycle returns
FinishCycle(c) == IdleCycle

ObserveFinish ==
    IF obs.on /\ obs.cycles < 2 THEN [obs EXCEPT !.cycles = @ + 1] ELSE obs

\* verify_chain_integrity (chain_orchestrator): rows = fetch(SQL_SELECT_UNCONFIRMED);
\* without rows the step returns 0 and the cycle returns
VerifySelect(r, dbok) ==
    LET rows == IF dbok THEN SelectUnconfirmed(ledger) ELSE <<>> IN
    /\ cyc[r].pc = "ver_select"
    /\ cyc' = [cyc EXCEPT ![r] =
                 IF Len(rows) = 0 THEN FinishCycle(@)
                 ELSE [@ EXCEPT !.pc = "ver_row", !.rows = rows, !.ret = NoReturn]]
    /\ obs' = IF Len(rows) = 0 THEN ObserveFinish ELSE obs
    /\ Fault(~dbok)
    /\ push_result' = NoPush
    /\ UNCHANGED <<ledger, pods_poe, pushes, enq_done>>
    /\ CycleFrame

\* one turn of the loop over the pending rows, up to the first statement:
\* a simulated tx_hash is confirmed at the chain head; otherwise the
\* receipt decides between SQL_CONFIRM, SQL_FAIL and leaving the row.
VerifyRow(r, receipt, dbok) ==
    LET c == cyc[r]
        row == Head(c.rows)
        sim == SimulatedTx(row.tx_hash)
        rcpt == IF rpc = "none" THEN "success" ELSE receipt
        confirm == ReceiptDecision(sim, rcpt) = "confirm"
        fail == ReceiptDecision(sim, rcpt) = "fail"
        block == IF sim \/ rpc = "none" THEN GetChainHead(rpc) ELSE ReceiptBlock
        seen == [step |-> "receipt", id |-> row.id,
                 receipt |-> IF sim THEN "simulated" ELSE rcpt]
        last == Len(c.rows) = 1
        flag == confirm /\ dbok
    IN
    /\ c.pc = "ver_row"
    /\ ledger' = IF confirm /\ dbok THEN Confirm(ledger, row.id, block)
                 ELSE IF fail /\ dbok THEN Fail(ledger, row.id)
                 ELSE ledger
    /\ cyc' = [cyc EXCEPT ![r] =
                 IF flag THEN [c EXCEPT !.pc = "ver_flag", !.ret = seen]
                 ELSE IF last THEN [FinishCycle(c) EXCEPT !.ret = seen]
                 ELSE [c EXCEPT !.rows = Tail(c.rows), !.ret = seen]]
    /\ obs' = IF ~flag /\ last THEN ObserveFinish ELSE obs
    /\ Fault(((confirm \/ fail) /\ ~dbok))
    /\ push_result' = NoPush
    /\ UNCHANGED <<pods_poe, pushes, enq_done>>
    /\ CycleFrame

\* the second statement after a confirmation: execute(SQL_FLAG_ONCHAIN);
\* confirmed += 1 unless it raised
VerifyFlag(r, dbok) ==
    LET c == cyc[r]
        row == Head(c.rows)
        last == Len(c.rows) = 1
    IN
    /\ c.pc = "ver_flag"
    /\ pods_poe' = IF dbok THEN FlagOnchain(pods_poe, row.poe_hash) ELSE pods_poe
    /\ cyc' = [cyc EXCEPT ![r] =
                 IF last THEN FinishCycle(c)
                 ELSE [c EXCEPT !.pc = "ver_row", !.rows = Tail(c.rows),
                                !.count = IF dbok THEN @ + 1 ELSE @,
                                !.ret = NoReturn]]
    /\ obs' = IF last THEN ObserveFinish ELSE obs
    /\ Fault(~dbok)
    /\ push_result' = NoPush
    /\ UNCHANGED <<ledger, pushes, enq_done>>
    /\ CycleFrame

\* push_to_chain called directly (verify_phase4.test_blockchain_client)
PushDirect(h, node) ==
    LET res == PushToChain(h, rpc, node, now, Broadcasts(h)) IN
    /\ res.outcome = "tx" => Broadcasts(h) < MaxPush
    /\ pushes' = CountPush(res, h)
    /\ push_result' = [called |-> TRUE, payload |-> h, node |-> node,
                       outcome |-> res.outcome]
    /\ UNCHANGED <<ledger, pods_poe, cyc, enq_done, obs, faults>>
    /\ CycleFrame

\* record_pod called on the event loop of the cycles (app.py /ask, /item):
\* it has no await, so its three statements run without a cycle step in
\* between.  dbok = the ledger INSERT succeeded.
RecordPodBody(data, dbok) ==
    LET c == [IdleCall EXCEPT !.kind = "pod", !.payload = PodPayload(data),
                              !.previous_hash = GetLastLedgerHash(ledger, TRUE),
                              !.timestamp = <<now>>]
        res == LedgerResult(c, ledger, dbok)
        entry_hash == ComputeChainHash(c.payload, c.previous_hash, c.timestamp, 0)
        cache == CacheInsert(pods_poe, GeneratePodHash(data))
    IN
    /\ ledger' = IF res.status = "success"
                 THEN Append(ledger,
                        Row(Len(ledger) + 1, entry_hash, c.previous_hash,
                            JsonDumps(EnhancedData(c.payload, c.timestamp)),
                            now, None, StatusDefault))
                 ELSE ledger
    /\ pods_poe' = cache
    /\ completed' = completed + 1
    /\ enq_done' = (enq_done /\ cache = pods_poe)
    /\ cyc' = [r \in Runners |-> [cyc[r] EXCEPT !.fresh = @ /\ cache = pods_poe]]
    /\ Fault(~dbok)
    /\ integrity_result' = NoResult
    /\ push_result' = NoPush
    /\ UNCHANGED <<now, call, repair, overlap, tamper, rpc, pushes, obs>>
    /\ UNCHANGED <<taskVars, appVars>>

\* record_pod, for at most MaxPods calls
RecordPod(data, dbok) ==
    /\ completed < MaxPods
    /\ RecordPodBody(data, dbok)

(***************************************************************************)
(* blockchain_chain_repair.repair_chain_links: a tool run beside the       *)
(* application; it reads all entries once, then updates row by row.        *)
(***************************************************************************)
IdleRepair == [pc |-> "idle", entries |-> <<>>, i |-> 0, repairs_made |-> 0]

\* the columns of the fetched entries that the tool uses
RepairEntries(l) ==
    LET e == SelectEntries(l) IN
    [n \in 1..Len(e) |-> [id |-> e[n].id, hash |-> e[n].hash,
                          previous_hash |-> e[n].previous_hash]]

\* an update that would also rewrite the stored hash
RepairUpdateRehash(l, id, expected_previous) ==
    [l EXCEPT ![id].previous_hash = expected_previous,
              ![id].hash = <<"rehash", expected_previous>>]

\* UPDATE blockchain_ledger SET previous_hash = %s WHERE id = %s
RepairUpdate(l, id, expected_previous) ==
    [l EXCEPT ![id].previous_hash = expected_previous]

RepairFrame ==
    /\ integrity_result' = NoResult
    /\ push_result' = NoPush
    /\ UNCHANGED <<pods_poe, now, call, completed, overlap, tamper>>
    /\ UNCHANGED <<rpc, cyc, pushes, enq_done, obs>>
    /\ UNCHANGED <<taskVars, appVars>>

RepairStart(dbok) ==
    LET entries == IF dbok THEN RepairEntries(ledger) ELSE <<>> IN
    /\ repair.pc = "idle"
    /\ repair' = IF Len(entries) <= 1 THEN IdleRepair
                 ELSE [pc |-> "fix", entries |-> entries, i |-> 2, repairs_made |-> 0]
    /\ Fault(~dbok)
    /\ UNCHANGED ledger
    /\ RepairFrame

\* one turn of the loop "for i in range(1, len(entries))"; a failing UPDATE
\* ends the run (the except around the whole function)
RepairStep(dbok) ==
    LET e == repair.entries[repair.i]
        expected_previous == repair.entries[repair.i - 1].hash
        broken == e.previous_hash # expected_previous
        last == repair.i = Len(repair.entries)
    IN
    /\ repair.pc = "fix"
    /\ ledger' = IF broken /\ dbok THEN RepairUpdate(ledger, e.id, expected_previous)
                 ELSE ledger
    /\ repair' = IF (broken /\ ~dbok) \/ last
                 THEN [IdleRepair EXCEPT !.repairs_made =
                          IF broken /\ dbok THEN repair.repairs_made + 1
                          ELSE IF broken THEN 0 ELSE repair.repairs_made]
                 ELSE [repair EXCEPT !.i = @ + 1,
                                     !.repairs_made = IF broken THEN @ + 1 ELSE @]
    /\ Fault((broken /\ ~dbok))
    /\ RepairFrame

(***************************************************************************)
(* GentleOmegaOrchestrator: submit_task, process_tasks, execute_task.  A   *)
(* task id is the position of the task in tasks.  A coroutine handed to    *)
(* asyncio.create_task runs when the event loop reaches it.                *)
(***************************************************************************)
\* MAX_CONCURRENT_TASKS of the environment (5 when unset)
max_concurrent_tasks == 2

\* the task types submitted: one whose handler suspends (pod_poe_flow), two
\* whose handlers run without suspending (create_item, generate_embedding),
\* one that execute_task does not know
TaskTypes == {"create_item", "pod_poe_flow", "generate_embedding", "unknown"}

BackgroundLoops == {"task_processor", "health_monitor", "integrity_checker"}

\* OrchestrationTask as submit_task creates it; runs (history): the number
\* of times execute_task was entered for it
NewTask(task_type, data) ==
    [task_type |-> task_type, data |-> data, status |-> "pending",
     result |-> "none", error |-> "none", pod_hash |-> None, runs |-> 0]

\* the store after record_pod / record_poe called from a task handler:
\* add_to_ledger (read of the last hash and INSERT, no await in between) and
\* the cache insert.  dbok = the ledger INSERT succeeded.
RecordStore(l, cache, payload, key, clock, dbok) ==
    LET c == [IdleCall EXCEPT !.payload = payload,
                              !.previous_hash = GetLastLedgerHash(l, TRUE),
                              !.timestamp = <<clock>>]
        res == LedgerResult(c, l, dbok)
        entry_hash == ComputeChainHash(c.payload, c.previous_hash, c.timestamp, 0)
    IN [ledger   |-> IF res.status = "success"
                     THEN Append(l, Row(Len(l) + 1, entry_hash, c.previous_hash,
                                        JsonDumps(EnhancedData(c.payload, c.timestamp)),
                                        clock, None, StatusDefault))
                     ELSE l,
        pods_poe |-> CacheInsert(cache, key)]

\* what a task step leaves alone when it does not touch the store
TaskFrame ==
    /\ UNCHANGED ledgerVars
    /\ UNCHANGED callVars
    /\ UNCHANGED reconVars
    /\ UNCHANGED <<served, loop_task>>

\* what a task step that called record_pod / record_poe does to the rest
StoreTaskFrame(store, calls, dbok) ==
    /\ ledger' = store.ledger
    /\ pods_poe' = store.pods_poe
    /\ completed' = completed + calls
    /\ enq_done' = (enq_done /\ store.pods_poe = pods_poe)
    /\ cyc' = [r \in Runners |-> [cyc[r] EXCEPT !.fresh = @ /\ store.pods_poe = pods_poe]]
    /\ Fault(~dbok)
    /\ integrity_result' = NoResult
    /\ push_result' = NoPush
    /\ UNCHANGED <<now, call, repair, overlap, tamper, rpc, pushes, obs>>
    /\ UNCHANGED <<served, loop_task>>

\* start() gets past test_database_connection and test_blockchain_integrity:
\* the store answers, and the verification result has the key the log line
\* reads ('verified' on success, 'broken_links' otherwise)
StartChecks(dbok) ==
    LET r == VerifyChainIntegrity(ledger, dbok, now) IN
    /\ dbok
    /\ IF r.status = "success" THEN "verified" \in DOMAIN r
                               ELSE "broken_links" \in DOMAIN r

\* the body of start() after the is_running test: is_running is set first;
\* when a test raises, no background task is created and start() raises
StartBody(dbok) ==
    /\ is_running' = TRUE
    /\ background_tasks' = IF StartChecks(dbok) THEN BackgroundLoops ELSE background_tasks
    /\ health_status' = [health_status EXCEPT !.orchestrator =
                            IF StartChecks(dbok) THEN "running" ELSE "failed"]
    /\ Fault(~dbok)

\* the body of stop() after the is_running test: the background tasks are
\* cancelled and awaited
StopBody ==
    /\ is_running' = FALSE
    /\ background_tasks' = {}
    /\ health_status' = [health_status EXCEPT !.orchestrator = "stopped"]

\* what start() and stop() leave alone
RunFrame ==
    /\ integrity_result' = NoResult
    /\ UNCHANGED <<call, repair, completed, overlap, tamper>>
    /\ UNCHANGED <<ledgerVars, reconVars>>
    /\ UNCHANGED <<tasks, tasks_queue, active_tasks, coro>>

\* start()
Start(dbok) ==
    /\ ~is_running
    /\ StartBody(dbok)
    /\ UNCHANGED <<served, loop_task>>
    /\ RunFrame

\* stop()
Stop ==
    /\ is_running
    /\ StopBody
    /\ UNCHANGED <<served, loop_task, faults>>
    /\ RunFrame

\* submit_task: a PENDING task; asyncio.create_task(self.tasks_queue.put(task))
SubmitTask(task_type, data) ==
    LET task_id == Len(tasks) + 1 IN
    /\ Len(tasks) < MaxTasks
    /\ tasks' = Append(tasks, NewTask(task_type, data))
    /\ coro' = coro \cup {<<"put", task_id>>}
    /\ UNCHANGED <<tasks_queue, active_tasks, is_running, background_tasks, health_status>>
    /\ TaskFrame

\* submit_task called by a client of the orchestrator module
SubmitJob(task_type, data) ==
    /\ Len(tasks) < MaxJobs
    /\ SubmitTask(task_type, data)

\* the scheduled tasks_queue.put(task) runs
QueuePut(task_id) ==
    /\ <<"put", task_id>> \in coro
    /\ coro' = coro \ {<<"put", task_id>>}
    /\ tasks_queue' = Append(tasks_queue, task_id)
    /\ UNCHANGED <<tasks, active_tasks, is_running, background_tasks, health_status>>
    /\ TaskFrame

\* a dispatcher that starts the task at the head of the queue and leaves
\* it in the queue
ProcessTasksKeepsQueued ==
    LET task_id == Head(tasks_queue) IN
    /\ "task_processor" \in background_tasks
    /\ is_running
    /\ Len(tasks_queue) > 0
    /\ coro' = coro \cup {<<"exec", task_id>>}
    /\ tasks_queue' = Append(Tail(tasks_queue), task_id)
    /\ UNCHANGED <<tasks, active_tasks, is_running, background_tasks, health_status>>
    /\ TaskFrame

\* a dispatcher that does not put the task back
PutBackDrops(queue, task_id) == queue

\* the queue after tasks_queue.get() once await self.tasks_queue.put(task)
\* has put the task back
PutBack(queue, task_id) == Append(queue, task_id)

\* one turn of the loop in process_tasks with a task in the queue
ProcessTasks ==
    LET task_id == Head(tasks_queue) IN
    /\ "task_processor" \in background_tasks
    /\ is_running
    /\ Len(tasks_queue) > 0
    /\ IF Cardinality(active_tasks) < max_concurrent_tasks
       THEN /\ coro' = coro \cup {<<"exec", task_id>>}
            /\ tasks_queue' = Tail(tasks_queue)
       ELSE /\ tasks_queue' = PutBack(Tail(tasks_queue), task_id)
            /\ UNCHANGED coro
    /\ UNCHANGED <<tasks, active_tasks, is_running, background_tasks, health_status>>
    /\ TaskFrame

\* an except branch that would mark the task failed without the error
TaskFailedNoError(task, error) == [task EXCEPT !.status = "failed"]

\* the except branch of execute_task: status FAILED, error = str(e)
TaskFailed(task, error) == [task EXCEPT !.status = "failed", !.error = error]

\* the execution_result a handler passes to record_poe
ExecutionResult(data) == [status |-> "completed", processed_data |-> data]

\* execute_task from its start to the point where its handler suspends
\* (asyncio.sleep in process_pod_poe_flow_task, after record_pod), or to its
\* end when the handler does not suspend (process_create_item_task: ok = the
\* INSERT INTO items succeeded; process_embedding_task: ok = the model
\* loaded and encoded) or the task type is unknown (ValueError)
ExecuteTaskBegin(task_id, ok, dbok) ==
    LET task == tasks[task_id]
        pod_hash == GeneratePodHash(task.data)
        store == RecordStore(ledger, pods_poe, PodPayload(task.data), pod_hash, now, dbok)
        result == ExecutionResult(task.data)
        both == RecordStore(store.ledger, store.pods_poe, PoePayload(pod_hash, result),
                            GeneratePoeHash(pod_hash, result), now, dbok)
    IN
    /\ <<"exec", task_id>> \in coro
    /\ coro' = coro \ {<<"exec", task_id>>}
    /\ UNCHANGED <<tasks_queue, is_running, background_tasks, health_status>>
    /\ CASE task.task_type = "pod_poe_flow" ->
              /\ ok
              /\ active_tasks' = active_tasks \cup {task_id}
              /\ tasks' = [tasks EXCEPT ![task_id].status = "processing",
                                        ![task_id].pod_hash = pod_hash,
                                        ![task_id].runs = @ + 1]
              /\ StoreTaskFrame(store, 1, dbok)
         [] task.task_type = "create_item" ->
              /\ UNCHANGED active_tasks
              /\ tasks' = [tasks EXCEPT ![task_id] =
                             IF ok THEN [@ EXCEPT !.status = "completed", !.result = "item",
                                                  !.pod_hash = pod_hash, !.runs = @ + 1]
                                   ELSE [TaskFailed(@, "insert") EXCEPT
                                                  !.pod_hash = pod_hash, !.runs = @ + 1]]
              /\ IF ok THEN StoreTaskFrame(both, 2, dbok)
                       ELSE StoreTaskFrame(store, 1, dbok)
         [] task.task_type = "generate_embedding" ->
              /\ dbok
              /\ UNCHANGED active_tasks
              /\ tasks' = [tasks EXCEPT ![task_id] =
                             IF ok THEN [@ EXCEPT !.status = "completed", !.result = "embedding",
                                                  !.runs = @ + 1]
                                   ELSE [TaskFailed(@, "encode") EXCEPT !.runs = @ + 1]]
              /\ TaskFrame
         [] OTHER ->
              /\ ok /\ dbok
              /\ UNCHANGED active_tasks
              /\ tasks' = [tasks EXCEPT ![task_id] =
                             [TaskFailed(@, "Unknown task type") EXCEPT !.runs = @ + 1]]
              /\ TaskFrame

\* execute_task of a pod_poe_flow task from the end of its sleep: record_poe,
\* the result, and the finally clause
ExecuteTaskEnd(task_id, dbok) ==
    LET task == tasks[task_id]
        result == ExecutionResult(task.data)
        store == RecordStore(ledger, pods_poe, PoePayload(task.pod_hash, result),
                             GeneratePoeHash(task.pod_hash, result), now, dbok)
    IN
    /\ task_id \in active_tasks
    /\ tasks' = [tasks EXCEPT ![task_id].status = "completed", ![task_id].result = "flow"]
    /\ active_tasks' = active_tasks \ {task_id}
    /\ UNCHANGED <<tasks_queue, coro, is_running, background_tasks, health_status>>
    /\ StoreTaskFrame(store, 1, dbok)

(***************************************************************************)
(* The application (app.py) around the orchestrator and the loop.          *)
(***************************************************************************)
\* startup_event: start_orchestration(), then
\* asyncio.create_task(orchestration_loop()); an exception of start() skips
\* the task creation and is logged
Startup(dbok) ==
    /\ served = "new"
    /\ served' = "up"
    /\ IF is_running
       THEN /\ UNCHANGED <<is_running, background_tasks, health_status, faults>>
            /\ loop_task' = [pc |-> "ready", failed |-> FALSE]
       ELSE /\ StartBody(dbok)
            /\ loop_task' = IF StartChecks(dbok)
                            THEN [pc |-> "ready", failed |-> FALSE]
                            ELSE loop_task
    /\ RunFrame

\* shutdown_event: stop_orchestration() and cleanup_blockchain_client()
Shutdown ==
    /\ served = "up"
    /\ served' = "down"
    /\ IF is_running THEN StopBody
                     ELSE UNCHANGED <<is_running, background_tasks, health_status>>
    /\ UNCHANGED <<loop_task, faults>>
    /\ RunFrame

\* POST /items of the served application: submit_create_item_task
CreateItem(data) ==
    /\ served = "up"
    /\ Len(tasks) < MaxItems
    /\ SubmitTask("create_item", data)

\* the loop task takes its next turn of while True: orchestration_cycle()
LoopIteration ==
    /\ loop_task.pc \in {"ready", "sleep"}
    /\ StartCycle("loop", FALSE)

\* the event loop is closed after shutdown (or the process is interrupted):
\* the loop task is cancelled at the await it is suspended in
CancelLoop ==
    /\ served = "down"
    /\ loop_task.pc \in {"ready", "cycle", "sleep"}
    /\ loop_task' = [pc |-> "cancelled", failed |-> FALSE]
    /\ cyc' = [cyc EXCEPT !["loop"] = IdleCycle]
    /\ integrity_result' = NoResult
    /\ push_result' = NoPush
    /\ UNCHANGED <<ledgerVars, taskVars>>
    /\ UNCHANGED <<call, repair, completed, overlap, tamper, faults>>
    /\ UNCHANGED <<rpc, pushes, enq_done, obs, health_status, served>>

\* one turn of health_monitoring_loop after its sleep
HealthMonitoring ==
    /\ "health_monitor" \in background_tasks
    /\ is_running
    /\ health_status' = [health_status EXCEPT !.last_health_check = <<now>>]
    /\ integrity_result' = NoResult
    /\ UNCHANGED <<ledgerVars, reconVars, taskVars>>
    /\ UNCHANGED <<call, repair, completed, overlap, tamper, faults, served, loop_task>>

\* one turn of periodic_integrity_check after its sleep
PeriodicIntegrityCheck(dbok) ==
    /\ "integrity_checker" \in background_tasks
    /\ is_running
    /\ VerifyIntegrity(dbok)

(***************************************************************************)
(* Initial state: empty tables, no call, cycle or task in progress.        *)
(***************************************************************************)
\* no row has been written from outside
NoTamper == [n |-> 0, id |-> 0, field |-> "none", value |-> None, clean |-> FALSE]

InitStore ==
    /\ ledger = <<>>
    /\ pods_poe = <<>>
    /\ now = 0

InitCalls ==
    /\ call = [p \in Callers |-> IdleCall]
    /\ integrity_result = NoResult
    /\ repair = IdleRepair
    /\ completed = 0
    /\ overlap = FALSE
    /\ tamper = NoTamper
    /\ faults = 0

InitRecon ==
    /\ rpc \in {"none", "live"}
    /\ cyc = [r \in Runners |-> IdleCycle]
    /\ pushes = <<>>
    /\ push_result = NoPush
    /\ enq_done = FALSE
    /\ obs = NoObs

InitTasks ==
    /\ tasks = <<>>
    /\ tasks_queue = <<>>
    /\ active_tasks = {}
    /\ coro = {}
    /\ is_running = FALSE
    /\ background_tasks = {}

InitApp ==
    /\ health_status = [orchestrator |-> "initializing", last_health_check |-> None]
    /\ served = "new"
    /\ loop_task = NoLoop

Init == InitStore /\ InitCalls /\ InitRecon /\ InitTasks /\ InitApp

\* CHAIN_RPC is not set.  The ledger calls and the task dispatcher never
\* consult the endpoint.
InitSim == Init /\ rpc = "none"

(***************************************************************************)
(* SpecLedger: callers appending to and verifying the ledger.              *)
(***************************************************************************)
NextLedger ==
    \/ \E p \in Callers, data \in DataSet, dbok \in BOOLEAN : AddRead(p, "add", data, dbok)
    \/ \E p \in Callers, dbok \in BOOLEAN : AddInsert(p, dbok)
    \/ \E dbok \in BOOLEAN : VerifyIntegrity(dbok)
    \/ Tick

SpecLedger == InitSim /\ [][NextLedger]_vars


(***************************************************************************)
(* SpecRecord: callers recording PoD / PoE (ledger entry + cache record).  *)
(***************************************************************************)
NextRecord ==
    \/ \E p \in Callers, kind \in {"pod", "poe"}, data \in PodData, dbok \in BOOLEAN :
          AddRead(p, kind, data, dbok)
    \/ \E p \in Callers, dbok \in BOOLEAN : AddInsert(p, dbok)
    \/ \E p \in Callers, dbok \in BOOLEAN : RecordCache(p, dbok)
    \/ Tick

SpecRecord == InitSim /\ [][NextRecord]_vars

(***************************************************************************)
(* Claims about the ledger.                                                *)
(***************************************************************************)
AllIdle == \A p \in Callers : call[p].pc = "idle"

\* I1 over the stored rows: genesis has no previous_hash, every later entry
\* links to the hash of the entry before it
Linked(entries) ==
    /\ Len(entries) > 0 => entries[1].previous_hash = None
    /\ \A i \in 2..Len(entries) : entries[i].previous_hash = entries[i-1].hash

\* C1: after N >= 1 add_to_ledger calls on an empty ledger, one after the
\* other, with a reachable store and nothing else touching the ledger,
\* verify_chain_integrity reports entries = N, verified = N and no broken
\* link, and the entries are linked.
C1_SequentialAppendsVerify ==
    (completed >= 1 /\ AllIdle /\ ~overlap /\ faults = 0) =>
        LET r == VerifyChainIntegrity(ledger, TRUE, now) IN
        /\ r.entries = completed
        /\ r.verified = completed
        /\ Len(r.broken_links) = 0
        /\ Linked(SelectEntries(ledger))

\* C2: no two ledger entries share a previous_hash (in particular at most
\* one entry has none), however the reads and inserts of concurrent
\* add_to_ledger calls interleave.
C2_NoSharedPreviousHash ==
    faults = 0 =>
        \A i, j \in 1..Len(ledger) :
            i # j => ledger[i].previous_hash # ledger[j].previous_hash

\* C9: a record_pod / record_poe result with status success means that the
\* ledger insert of that call succeeded and the entry is stored.
C9_SuccessMeansStored ==
    \A p \in Callers :
        (call[p].pc = "idle" /\ call[p].kind \in {"pod", "poe"}
            /\ call[p].result.status = "success") =>
        /\ call[p].ledger_result.status = "success"
        /\ call[p].result.ledger_id \in 1..Len(ledger)


(***************************************************************************)
(* SpecRecon: the reconciliation cycles of the periodic loop and of the    *)
(* on-demand trigger, beside record_pod.                                   *)
(***************************************************************************)
PushPayloads ==
    { <<"raw", 64, FALSE>>, <<"raw", 11999, FALSE>>, <<"raw", 12000, TRUE>>,
      <<"raw", 12001, FALSE>>, <<"raw", 14000, TRUE>> }

\* the steps of a cycle up to the fetch of the pending rows
CycleUntilVerify(r) ==
    \/ \E dbok \in BOOLEAN : EnqueueScan(r, dbok)
    \/ \E dbok \in BOOLEAN : EnqueueInsert(r, dbok)
    \/ \E dbok \in BOOLEAN : SubmitSelect(r, dbok)
    \/ \E node \in NodeStates, dbok \in BOOLEAN : SubmitRow(r, node, dbok)
    \/ \E dbok \in BOOLEAN : VerifySelect(r, dbok)

\* the steps of a cycle that has been entered
CycleBody(r) ==
    \/ CycleUntilVerify(r)
    \/ \E receipt \in Receipts, dbok \in BOOLEAN : VerifyRow(r, receipt, dbok)
    \/ \E dbok \in BOOLEAN : VerifyFlag(r, dbok)

CycleStep(r, watch) ==
    \/ StartCycle(r, watch)
    \/ CycleBody(r)

NextRecon ==
    \/ \E data \in PodData, dbok \in BOOLEAN : RecordPod(data, dbok)
    \/ \E r \in Runners : CycleStep(r, FALSE)

SpecRecon == Init /\ [][NextRecon]_vars

(***************************************************************************)
(* SpecSim: cycles without an RPC endpoint (CHAIN_RPC unset).              *)
(***************************************************************************)
NextSim ==
    \/ \E data \in PodData, dbok \in BOOLEAN : RecordPod(data, dbok)
    \/ \E r \in Runners : CycleStep(r, TRUE)

SpecSim == InitSim /\ [][NextSim]_vars

(***************************************************************************)
(* SpecRepair: the link repair tool beside appends, a reconciliation cycle *)
(* and verification.                                                       *)
(***************************************************************************)
NextRepair ==
    \/ \E data \in PodData, dbok \in BOOLEAN : RecordPod(data, dbok)
    \/ CycleStep("loop", FALSE)
    \/ \E dbok \in BOOLEAN : RepairStart(dbok)
    \/ \E dbok \in BOOLEAN : RepairStep(dbok)
    \/ \E dbok \in BOOLEAN : VerifyIntegrity(dbok)

SpecRepair == Init /\ [][NextRepair]_vars

(***************************************************************************)
(* SpecPush: push_to_chain called with payloads around the calldata cap.   *)
(***************************************************************************)
NextPush ==
    \/ \E h \in PushPayloads, node \in NodeStates : PushDirect(h, node)
    \/ Tick

SpecPush == Init /\ [][NextPush]_vars

(***************************************************************************)
(* Claims about the reconciliation cycle.                                  *)
(***************************************************************************)
StatusOf(l, i) == l[i].status

\* the step is runner r working through its fetched rows at position pc
RowStep(r, pc) == cyc[r].pc = pc /\ cyc'[r].rows # cyc[r].rows

\* C3: a confirmed or failed chain submission never changes status; a status
\* changes to pending only in the submit step and only from queued, and to
\* confirmed or failed only in the pending-verification step and only from
\* pending.
C3_StatusStateMachine ==
    [][\A i \in 1..Len(ledger) :
          StatusOf(ledger', i) # StatusOf(ledger, i) =>
             \/ /\ StatusOf(ledger, i) = "queued"
                /\ StatusOf(ledger', i) = "pending"
                /\ \E r \in Runners : cyc[r].pc = "sub_row" /\ cyc'[r] # cyc[r]
             \/ /\ StatusOf(ledger, i) = "pending"
                /\ StatusOf(ledger', i) \in {"confirmed", "failed"}
                /\ \E r \in Runners : cyc[r].pc = "ver_row" /\ cyc'[r] # cyc[r]]_vars

\* C4: two executions of orchestration_cycle are never in progress together.
C4_CyclesNeverOverlap ==
    ~(cyc["loop"].pc # "idle" /\ cyc["manual"].pc # "idle")

ChainRows(l) == {i \in 1..Len(l) : l[i].poe_hash # None}

OnePerPoeHash(l) ==
    \A i, j \in ChainRows(l) : l[i].poe_hash = l[j].poe_hash => i = j

\* C5: there is at most one chain-submission row per poe_hash, and an
\* insert of enqueue_missing_poe in a pass that began after a complete pass,
\* with no cache record added since, leaves the ledger as it is (no row
\* added; no status, tx_hash or block_number changed).
C5_EnqueueIdempotent ==
    [][/\ OnePerPoeHash(ledger')
       /\ \A r \in Runners :
             (RowStep(r, "enq_insert") /\ cyc[r].second) => ledger' = ledger]_vars

\* a pass that began after a complete pass has executed an insert
C5_Witness ==
    \E r \in Runners : cyc[r].pc = "enq_insert" /\ cyc[r].second /\ cyc[r].count >= 1

ConfirmedTarget(l) ==
    \E i \in ChainRows(l) : l[i].poe_hash \in obs.targets /\ l[i].status = "confirmed"

\* C6: without an RPC endpoint, when entries await the chain at the start of
\* a cycle, one of them is confirmed at the moment the second cycle after
\* that start returns.
C6_SimulatedConfirmsInTwoCycles ==
    [][(obs.cycles = 1 /\ obs'.cycles = 2) => ConfirmedTarget(ledger')]_vars

\* C7: no step changes the hash of a stored entry, and only a step of
\* repair_chain_links changes a stored previous_hash.
C7_HashesImmutable ==
    [][/\ Len(ledger') >= Len(ledger)
       /\ \A i \in 1..Len(ledger) :
             /\ ledger'[i].hash = ledger[i].hash
             /\ ledger'[i].previous_hash # ledger[i].previous_hash =>
                   (repair.pc = "fix" /\ repair' # repair)]_vars

\* repair_chain_links has rewritten a link
C7_Witness == repair.repairs_made >= 1

\* C10: push_to_chain answers payload-too-large for every payload with more
\* hex digits than the calldata cap, with and without an RPC endpoint.
C10_OversizeRejected ==
    (push_result.called /\ HexDigits(push_result.payload) > CalldataCap) =>
        push_result.outcome = "too_large"

(***************************************************************************)
(* SpecTasks: the task dispatcher and the coroutines it starts.            *)
(***************************************************************************)
TaskIds == 1..MaxTasks

\* the data of the tasks submitted
TaskData == {[event |-> 1]}

NextTasks ==
    \/ \E data \in PodData, dbok \in BOOLEAN : RecordPod(data, dbok)
    \/ \E dbok \in BOOLEAN : Start(dbok)
    \/ Stop
    \/ \E task_type \in TaskTypes, data \in TaskData : SubmitTask(task_type, data)
    \/ \E task_id \in TaskIds : QueuePut(task_id)
    \/ ProcessTasks
    \/ \E task_id \in TaskIds, ok \in BOOLEAN, dbok \in BOOLEAN :
          ExecuteTaskBegin(task_id, ok, dbok)
    \/ \E task_id \in TaskIds, dbok \in BOOLEAN : ExecuteTaskEnd(task_id, dbok)

SpecTasks == InitSim /\ [][NextTasks]_vars

\* tasks the dispatcher has started and that have not finished
StartedUnfinished ==
    {task_id \in TaskIds : <<"exec", task_id>> \in coro} \cup active_tasks

\* C8: the dispatcher never has more than max_concurrent_tasks tasks started
\* and unfinished.
C8_BoundedConcurrency ==
    Cardinality(StartedUnfinished) <= max_concurrent_tasks

(***************************************************************************)
(* SpecLoop: the application starts, serves and shuts down; beside it the  *)
(* orchestration_loop task created at startup and record_pod calls.        *)
(***************************************************************************)
\* The loop task exists only after start() found a ledger entry that
\* verifies.  That entry is queued and has no poe_hash, so every
\* submit_queued of the loop ends at it before a row is marked pending, and
\* the fetch of the pending rows returns none: the loop's cycle never enters
\* its per-row verification steps.
NextLoop ==
    \/ \E data \in PodData, dbok \in BOOLEAN : RecordPod(data, dbok)
    \/ \E dbok \in BOOLEAN : Startup(dbok)
    \/ Shutdown
    \/ LoopIteration
    \/ CycleUntilVerify("loop")
    \/ CancelLoop

SpecLoop == Init /\ [][NextLoop]_vars

\* the sleep of the loop ends and every awaited store or RPC call returns
LoopFairness == WF_vars(LoopIteration) /\ WF_vars(CycleUntilVerify("loop"))

SpecLoopFair == SpecLoop /\ LoopFairness

\* a loop task that runs keeps starting cycles until it is cancelled
LoopKeepsRunning ==
    /\ (loop_task.pc \in {"ready", "sleep"}) ~> (loop_task.pc \in {"cycle", "cancelled"})
    /\ (loop_task.pc = "cycle") ~> (loop_task.pc \in {"sleep", "cancelled"})

\* the loop is in the regular sleep only after a cycle without a failure
BackoffAfterFailure == [](loop_task.pc = "sleep" => ~loop_task.failed)

\* C11: orchestration_loop never terminates on its own: after a cycle in
\* which a store or RPC failure occurred it waits the shorter backoff (not
\* the regular interval) and starts another cycle; it stops only when it is
\* cancelled.
C11_LoopBacksOffAndContinues == BackoffAfterFailure /\ LoopKeepsRunning

(***************************************************************************)
(* SpecApp: the application with everything it starts: the three           *)
(* background loops of the orchestrator, the tasks, the orchestration_loop *)
(* task, and record_pod calls of the endpoints.                            *)
(***************************************************************************)
NextApp ==
    \/ \E data \in PodData, dbok \in BOOLEAN : RecordPod(data, dbok)
    \/ \E dbok \in BOOLEAN : Startup(dbok)
    \/ Shutdown
    \/ LoopIteration
    \/ CycleUntilVerify("loop")
    \/ CancelLoop
    \/ HealthMonitoring
    \/ \E dbok \in BOOLEAN : PeriodicIntegrityCheck(dbok)
    \/ \E data \in TaskData : CreateItem(data)
    \/ \E task_id \in TaskIds : QueuePut(task_id)
    \/ ProcessTasks
    \/ \E task_id \in TaskIds, ok \in BOOLEAN, dbok \in BOOLEAN :
          ExecuteTaskBegin(task_id, ok, dbok)

SpecApp == Init /\ [][NextApp]_vars

\* the step begins an iteration of one of the periodic loops
IterationBegins ==
    \/ cyc["loop"].pc = "idle" /\ cyc'["loop"].pc # "idle"
    \/ tasks_queue' # tasks_queue /\ Len(tasks_queue') <= Len(tasks_queue)
    \/ health_status'.last_health_check # health_status.last_health_check
    \/ integrity_result'.status # "none"

\* C12: after shutdown (stop_orchestration, then cleanup) no periodic loop
\* begins a further iteration: not the dispatcher (no task is dispatched),
\* not the health monitor, not the integrity checker, not the
\* orchestration_loop started at startup.
C12_NoIterationAfterShutdown ==
    [][served = "down" => ~IterationBegins]_vars

(***************************************************************************)
(* SpecTamper: record_pod calls appending to the ledger; stored rows are   *)
(* overwritten from outside the program; verification runs on what is      *)
(* stored.                                                                 *)
(***************************************************************************)
\* the values a column of a stored row is overwritten with, by name:
\* NULL; a hash no entry has; the hash of the first / of the last entry; a
\* text that is not an object; the text of an object without the time key
TamperChoices == {"null", "bogus", "first", "last", "text", "object"}

TamperFields == {"previous_hash", "hash", "block_data"}

ChoicesOf(field) ==
    CASE field = "previous_hash" -> {"null", "bogus", "first", "last"}
      [] field = "hash"          -> {"bogus"}
      [] OTHER                   -> {"null", "text", "object"}

TamperValue(l, choice) ==
    CASE choice = "null"   -> None
      [] choice = "bogus"  -> <<"bogus">>
      [] choice = "first"  -> l[1].hash
      [] choice = "last"   -> l[Len(l)].hash
      [] choice = "text"   -> <<"not", "json">>
      [] OTHER             -> JsonDumps([event |-> 0])

\* a column of the stored row i is overwritten with another value
Tamper(i, field, choice) ==
    LET value == TamperValue(ledger, choice) IN
    /\ tamper.n < MaxTamper
    /\ i \in 1..Len(ledger)
    /\ choice \in ChoicesOf(field)
    /\ ledger[i][field] # value
    /\ ledger' = [ledger EXCEPT ![i] = [@ EXCEPT ![field] = value]]
    /\ tamper' = [n |-> tamper.n + 1, id |-> i, field |-> field, value |-> value,
                  clean |-> IF tamper.n = 0
                            THEN VerifyChainIntegrity(ledger, TRUE, now).status = "success"
                            ELSE tamper.clean]
    /\ integrity_result' = NoResult
    /\ UNCHANGED <<pods_poe, now, call, repair, completed, overlap, faults>>
    /\ UNCHANGED <<reconVars, taskVars, appVars>>

NextTamper ==
    \/ \E data \in PodData, dbok \in BOOLEAN : RecordPod(data, dbok)
    \/ \E i \in 1..MaxPods, field \in TamperFields, choice \in TamperChoices :
          Tamper(i, field, choice)
    \/ \E dbok \in BOOLEAN : VerifyIntegrity(dbok)

SpecTamper == InitSim /\ [][NextTamper]_vars

\* the stored link of entry i is not the hash of the entry before it
LinkViolated(entries, i) ==
    IF i = 1 THEN entries[1].previous_hash # None
             ELSE entries[i].previous_hash # entries[i-1].hash

\* the stored hash of entry e is not the hash of its stored fields
HashCheckFails(e, clock) ==
    \/ ~IsJsonObject(e.block_data)
    \/ LET popped == PopHashTimestamp(JsonLoads(e.block_data)) IN
       e.hash # ComputeChainHash(popped[2], e.previous_hash, popped[1], clock)

\* the kinds of the messages in broken_links that name entry id
KindsNaming(r, id) ==
    {r.broken_links[m][1] : m \in {n \in 1..Len(r.broken_links) : r.broken_links[n][2] = id}}

LinkKinds == {"genesis_unexpected_previous_hash", "previous_hash_mismatch"}
HashKinds == {"hash_verification_failed", "hash_computation_error"}

\* C13: verify_chain_integrity, when its query succeeds, returns a result
\* that counts every stored entry, whatever the rows hold (wrong links,
\* wrong hashes, missing or unreadable block_data); broken_links has a link
\* message for every violated link and a hash message for every entry whose
\* hash check fails.
C13_VerifyReportsEveryFault ==
    [][(integrity_result'.status # "none" /\ faults' = faults) =>
          LET r == integrity_result'
              entries == SelectEntries(ledger)
          IN  /\ "entries" \in DOMAIN r
              /\ r.entries = Len(ledger)
              /\ Len(ledger) > 0 =>
                    \A i \in 1..Len(entries) :
                        /\ LinkViolated(entries, i) =>
                              KindsNaming(r, entries[i].id) \cap LinkKinds # {}
                        /\ HashCheckFails(entries[i], now) =>
                              KindsNaming(r, entries[i].id) \cap HashKinds # {}]_vars

\* a verification has reported an entry whose block_data it could not read,
\* next to an entry with a broken link
C13_Witness ==
    /\ "broken_links" \in DOMAIN integrity_result
    /\ \E m, n \in 1..Len(integrity_result.broken_links) :
          /\ integrity_result.broken_links[m][1] = "hash_computation_error"
          /\ integrity_result.broken_links[n][1] \in LinkKinds
          /\ integrity_result.broken_links[n][2] # integrity_result.broken_links[m][2]

\* verify_chain_integrity has just returned the result of a successful
\* query on a ledger that verified cleanly until the previous_hash of
\* exactly one entry was overwritten, and that still holds the written value
OneLinkCorrupted ==
    /\ "broken_links" \in DOMAIN integrity_result
    /\ tamper.n = 1
    /\ tamper.field = "previous_hash"
    /\ tamper.clean
    /\ ledger[tamper.id].previous_hash = tamper.value

\* C14 as stated: on a ledger that verified cleanly, after the previous_hash
\* of exactly one entry is corrupted in storage, verify_chain_integrity
\* returns exactly one broken_links message, naming that entry's id.
C14_ExactlyOneMessage ==
    OneLinkCorrupted =>
        /\ Len(integrity_result.broken_links) = 1
        /\ integrity_result.broken_links[1][2] = tamper.id

\* C14 as the code has it: verify_chain_integrity returns exactly two
\* broken_links messages, both naming the corrupted entry: its link message
\* and, because the hash covers previous_hash, its hash verification failure.
C14_LinkAndHashMessage ==
    OneLinkCorrupted =>
        /\ Len(integrity_result.broken_links) = 2
        /\ integrity_result.broken_links[1][2] = tamper.id
        /\ integrity_result.broken_links[2][2] = tamper.id
        /\ integrity_result.broken_links[1][1] \in LinkKinds
        /\ integrity_result.broken_links[2][1] = "hash_verification_failed"

\* the corrupted entry is not the first one
C14_Witness == OneLinkCorrupted /\ tamper.id > 1

(***************************************************************************)
(* SpecTamperRepair: as SpecTamper with previous_hash as the column that   *)
(* is overwritten, and the repair tool run on the ledger.                  *)
(***************************************************************************)
NextTamperRepair ==
    \/ \E data \in PodData, dbok \in BOOLEAN : RecordPod(data, dbok)
    \/ \E i \in 1..MaxPods, choice \in TamperChoices : Tamper(i, "previous_hash", choice)
    \/ \E dbok \in BOOLEAN : RepairStart(dbok)
    \/ \E dbok \in BOOLEAN : RepairStep(dbok)
    \/ \E dbok \in BOOLEAN : VerifyIntegrity(dbok)

SpecTamperRepair == InitSim /\ [][NextTamperRepair]_vars

\* verify_chain_integrity has just returned the result of a successful
\* query on a ledger that verified cleanly until the previous_hash of
\* exactly one entry was overwritten, after repair_chain_links has rewritten
\* the previous_hash of that entry
LinkRepaired ==
    /\ "broken_links" \in DOMAIN integrity_result
    /\ tamper.n = 1
    /\ tamper.field = "previous_hash"
    /\ tamper.clean
    /\ ledger[tamper.id].previous_hash # tamper.value

\* C15 as stated: after previous_hash of an entry was corrupted and
\* repair_chain_links has rewritten it, verify_chain_integrity still reports
\* a hash verification failure for that entry.
C15_StillFailsAfterRepair ==
    LinkRepaired =>
        \E m \in 1..Len(integrity_result.broken_links) :
            integrity_result.broken_links[m] = <<"hash_verification_failed", tamper.id>>

\* C15 as the code has it: repair_chain_links writes back the hash of the
\* preceding entry, which is the value the entry's hash was computed with,
\* so verify_chain_integrity reports nothing for that entry any more and the
\* ledger verifies cleanly.
C15_VerifiesAfterRepair ==
    LinkRepaired =>
        /\ KindsNaming(integrity_result, tamper.id) = {}
        /\ integrity_result.status = "success"

\* the repaired ledger has been verified
C15_Witness == LinkRepaired /\ integrity_result.entries >= 2

(***************************************************************************)
(* SpecDispatch: the orchestrator started on a ledger with entries, and    *)
(* tasks of every type submitted to it.                                    *)
(***************************************************************************)
NextDispatch ==
    \/ \E data \in TaskData, dbok \in BOOLEAN : RecordPod(data, dbok)
    \/ \E dbok \in BOOLEAN : Start(dbok)
    \/ Stop
    \/ \E task_type \in TaskTypes, data \in TaskData : SubmitJob(task_type, data)
    \/ \E task_id \in TaskIds : QueuePut(task_id)
    \/ ProcessTasks
    \/ \E task_id \in TaskIds, ok \in BOOLEAN, dbok \in BOOLEAN :
          ExecuteTaskBegin(task_id, ok, dbok)
    \/ \E task_id \in TaskIds, dbok \in BOOLEAN : ExecuteTaskEnd(task_id, dbok)

SpecDispatch == InitSim /\ [][NextDispatch]_vars

\* the status changes of one step of execute_task: a handler that suspends
\* leaves the task processing in between; a handler that does not suspend
\* takes it from pending to its outcome in the same turn of the event loop
StatusMoves ==
    { <<"pending", "processing">>, <<"processing", "completed">>,
      <<"processing", "failed">>, <<"pending", "completed">>, <<"pending", "failed">> }

\* C16: a task's status only moves forward, pending to processing to
\* completed or failed; execute_task is entered at most once per task; once
\* a task is completed or failed, its status, result and error stay as
\* they are.
C16_TaskStatusOneWay ==
    [][\A task_id \in 1..Len(tasks) :
          LET a == tasks[task_id]
              b == tasks'[task_id]
          IN  /\ a.status # b.status => <<a.status, b.status>> \in StatusMoves
              /\ b.runs <= 1
              /\ b.runs # a.runs => a.status = "pending"
              /\ a.status \in {"completed", "failed"} =>
                    /\ b.status = a.status
                    /\ b.result = a.result
                    /\ b.error = a.error]_vars

\* a task whose handler suspends has gone through processing to completed,
\* and another task has failed
C16_Witness ==
    \E i, j \in 1..Len(tasks) :
        /\ tasks[i].task_type = "pod_poe_flow" /\ tasks[i].status = "completed"
        /\ tasks[j].status = "failed"

(***************************************************************************)
(* SpecFail: the orchestrator started on a ledger that holds one entry,    *)
(* with tasks that fail beside tasks in flight; the store is reachable.    *)
(***************************************************************************)
\* the record_pod call that wrote the first ledger entry
FirstPod(data) ==
    /\ ledger = <<>>
    /\ RecordPod(data, TRUE)

NextFail ==
    \/ \E data \in TaskData : FirstPod(data)
    \/ Start(TRUE)
    \/ Stop
    \/ \E task_type \in TaskTypes, data \in TaskData : SubmitJob(task_type, data)
    \/ \E task_id \in TaskIds : QueuePut(task_id)
    \/ ProcessTasks
    \/ \E task_id \in TaskIds, ok \in BOOLEAN : ExecuteTaskBegin(task_id, ok, TRUE)
    \/ \E task_id \in TaskIds : ExecuteTaskEnd(task_id, TRUE)

SpecFail == InitSim /\ [][NextFail]_vars

\* the sleep of a suspended handler ends and the rest of execute_task runs
DispatchFairness ==
    WF_vars(\E task_id \in TaskIds : ExecuteTaskEnd(task_id, TRUE))

SpecFailFair == SpecFail /\ DispatchFairness

\* a failed task has its error recorded and is not in the active set
FailedIsRecorded ==
    [](\A task_id \in 1..Len(tasks) :
          tasks[task_id].status = "failed" =>
             /\ tasks[task_id].error # "none"
             /\ task_id \notin active_tasks)

\* the step in which a task fails leaves the dispatcher running, the queue
\* and every other task as they are
FailureIsContained ==
    [][\A task_id \in 1..Len(tasks) :
          (tasks[task_id].status # "failed" /\ tasks'[task_id].status = "failed") =>
             /\ is_running' = is_running
             /\ background_tasks' = background_tasks
             /\ tasks_queue' = tasks_queue
             /\ active_tasks' \ {task_id} = active_tasks \ {task_id}
             /\ \A other \in 1..Len(tasks) \ {task_id} : tasks'[other] = tasks[other]]_vars

\* every started task reaches its outcome: again and again all the tasks
\* that execute_task was entered for are completed or failed
InFlightFinishes ==
    []<>(\A task_id \in 1..Len(tasks) :
            tasks[task_id].runs > 0 => tasks[task_id].status \in {"completed", "failed"})

\* C17: when the work of a task raises (an unknown task type included) the
\* task ends failed with the error recorded and is out of the active set;
\* the dispatcher goes on, and every other task in flight still reaches its
\* own outcome.
C17_FailureLeavesOthersRunning ==
    FailedIsRecorded /\ FailureIsContained /\ InFlightFinishes

\* a task of unknown type has failed while another task is in flight
C17_Witness ==
    \E i \in 1..Len(tasks) :
        /\ tasks[i].task_type = "unknown" /\ tasks[i].status = "failed"
        /\ active_tasks # {}

(***************************************************************************)
(* Claims about chain-submission rows in the ledger table.                 *)
(***************************************************************************)
\* the hash of the most recent row written by add_to_ledger
LastEntryHash(l) ==
    LET adds == {i \in 1..Len(l) : l[i].poe_hash = None} IN
    IF adds = {} THEN None
    ELSE l[CHOOSE i \in adds : \A j \in adds \ {i} : RowBefore(l[j], l[i])].hash

\* C18: in every state reached by record_pod / add_to_ledger calls and
\* reconciliation cycles, the rows of the ledger table are linked (I1), the
\* rows inserted by enqueue_missing_poe are not reported by
\* verify_chain_integrity, and get_last_ledger_hash returns the hash of the
\* most recent add_to_ledger entry.
C18_ChainRowsOutsideChain ==
    LET r == VerifyChainIntegrity(ledger, TRUE, now) IN
    /\ Linked(SelectEntries(ledger))
    /\ "broken_links" \in DOMAIN r =>
          \A i \in ChainRows(ledger) : KindsNaming(r, i) = {}
    /\ GetLastLedgerHash(ledger, TRUE) = LastEntryHash(ledger)

\* an add_to_ledger call stores an entry that has no previous_hash
StoresUnlinkedEntry ==
    /\ Len(ledger') = Len(ledger) + 1
    /\ ledger'[Len(ledger')].poe_hash = None
    /\ ledger'[Len(ledger')].previous_hash = None

\* C19: add_to_ledger stores an entry without previous_hash only when the
\* ledger is empty, also when reading the last hash fails: with calls that
\* do not overlap, no step stores an entry without previous_hash into a
\* ledger that already holds one.
C19_UnlinkedOnlyWhenEmpty ==
    [][(~overlap /\ StoresUnlinkedEntry) => Len(ledger) = 0]_vars

(***************************************************************************)
(* Claims about broadcasting chain submissions.                            *)
(***************************************************************************)
\* a recorded tx_hash of row i is replaced by a different one
TxHashReplaced(i) ==
    /\ ledger[i].tx_hash # None
    /\ ledger'[i].tx_hash # ledger[i].tx_hash

\* C20: with an RPC endpoint configured, push_to_chain returns a tx_hash at
\* most once per chain submission, also when the mark-pending update fails
\* after the broadcast, and a recorded tx_hash is never replaced.
C20_BroadcastAtMostOnce ==
    [][rpc = "live" =>
          /\ \A h \in DOMAIN pushes' : pushes'[h] <= 1
          /\ \A i \in 1..Len(ledger) : ~TxHashReplaced(i)]_vars

(***************************************************************************)
(* Claims about the counts the steps of a cycle return.                    *)
(***************************************************************************)
\* C21: the count enqueue_missing_poe returns equals the number of
\* chain-submission rows the call newly inserted (0 when every scanned
\* cache record already has one).
C21_EnqueuedCountsInserted ==
    \A r \in Runners :
        cyc[r].ret.step = "enqueue" => cyc[r].ret.count = cyc[r].ret.changed

\* runner r processes the first of its selected entries and fails on it
SubmitFails(r) ==
    /\ cyc[r].pc = "sub_row"
    /\ cyc'[r] # cyc[r]
    /\ push_result'.called
    /\ push_result'.outcome # "tx" \/ faults' > faults

\* C22: when processing one selected entry fails in submit_queued, the entry
\* stays queued without tx_hash and the remaining entries of the batch are
\* still attempted; the count submit_queued returns is the number of entries
\* the call moved from queued to pending.
C22_SubmitFailureIsContained ==
    [][/\ \A r \in Runners :
            SubmitFails(r) =>
               LET id == Head(cyc[r].rows).id IN
               /\ ledger'[id].status = "queued"
               /\ ledger'[id].tx_hash = None
               /\ Len(cyc[r].rows) > 1 =>
                     /\ cyc'[r].pc = "sub_row"
                     /\ cyc'[r].rows = Tail(cyc[r].rows)
       /\ \A r \in Runners :
            cyc'[r].ret.step = "submit" => cyc'[r].ret.count = cyc'[r].ret.changed]_vars

(***************************************************************************)
(* Claims about the pending-verification step.                             *)
(***************************************************************************)
\* runner r reads the receipt of the first of its pending rows
ReceiptRead(r) ==
    /\ cyc[r].pc = "ver_row"
    /\ cyc'[r] # cyc[r]
    /\ cyc'[r].ret.step = "receipt"

\* that row is a pending entry with a tx_hash of the endpoint
PendingLiveRow(r) ==
    LET row == Head(cyc[r].rows) IN
    /\ rpc = "live"
    /\ ledger[row.id].status = "pending"
    /\ ledger[row.id].tx_hash = row.tx_hash
    /\ ~SimulatedTx(row.tx_hash)

\* runner r runs SQL_FLAG_ONCHAIN for the row it has confirmed
FlagStep(r) == cyc[r].pc = "ver_flag" /\ cyc'[r] # cyc[r]

OnChain(cache, poe_hash) ==
    \A n \in 1..Len(cache) : cache[n].poe_hash = poe_hash => cache[n].on_chain

\* the effects the three kinds of receipt have; failures = the receipts that
\* make the entry failed
ReceiptEffects(failures) ==
    /\ \A r \in Runners :
         (ReceiptRead(r) /\ PendingLiveRow(r) /\ faults' = faults) =>
            LET id == Head(cyc[r].rows).id
                receipt == cyc'[r].ret.receipt
            IN
            /\ receipt = "unmined" => (ledger' = ledger /\ pods_poe' = pods_poe)
            /\ receipt = "success" =>
                  /\ ledger'[id].status = "confirmed"
                  /\ ledger'[id].block_number = <<ReceiptBlock>>
                  /\ cyc'[r].pc = "ver_flag"
            /\ receipt \in failures =>
                  /\ ledger'[id].status = "failed"
                  /\ pods_poe' = pods_poe
    /\ \A r \in Runners :
         (FlagStep(r) /\ faults' = faults) =>
            OnChain(pods_poe', Head(cyc[r].rows).poe_hash)

C24_TrackingFieldsMatchStatus ==
    \A i \in ChainRows(ledger) :
        /\ ledger[i].status = "queued" =>
              (ledger[i].tx_hash = None /\ ledger[i].block_number = None)
        /\ ledger[i].status = "pending" =>
              (ledger[i].tx_hash # None /\ ledger[i].block_number = None)
        /\ ledger[i].status = "confirmed" =>
              (ledger[i].tx_hash # None /\ ledger[i].block_number # None)

(***************************************************************************)
(* Claims about repair_chain_links on its own.                             *)
(***************************************************************************)
\* the entries a run of repair_chain_links on l would rewrite
WouldRewrite(l) ==
    LET e == RepairEntries(l) IN
    {e[i].id : i \in {n \in 2..Len(e) : e[n].previous_hash # e[n-1].hash}}

\* the run of repair_chain_links reaches its end in this step, and no row
\* was added to the ledger since the run read the entries
RepairCompletes ==
    /\ repair.pc = "fix"
    /\ repair'.pc = "idle"
    /\ faults' = faults
    /\ Len(ledger) = Len(repair.entries)

\* C25: when repair_chain_links has completed, every entry but the first
\* has the hash of the entry before it as previous_hash,
\* verify_chain_integrity reports no previous_hash mismatch, and a second
\* run would rewrite no entry.
C25_RepairLinksEveryEntry ==
    [][RepairCompletes =>
          LET entries == SelectEntries(ledger')
              r == VerifyChainIntegrity(ledger', TRUE, now)
          IN  /\ \A i \in 2..Len(entries) : ~LinkViolated(entries, i)
              /\ \A m \in 1..Len(r.broken_links) :
                    r.broken_links[m][1] # "previous_hash_mismatch"
              /\ WouldRewrite(ledger') = {}]_vars

\* a run that rewrote a link has completed, and a second run has nothing
\* to rewrite
C25_Witness ==
    /\ repair.pc = "idle"
    /\ repair.repairs_made >= 1
    /\ Len(ledger) >= 3
    /\ WouldRewrite(ledger) = {}

(***************************************************************************)
(* Claims about the on_chain flag of the cache records.                    *)
(***************************************************************************)
\* the cache record n is flagged on chain although no chain submission with
\* its poe_hash is confirmed
FlaggedUnconfirmed(n) ==
    /\ pods_poe[n].on_chain
    /\ ~\E i \in ChainRows(ledger) :
           ledger[i].poe_hash = pods_poe[n].poe_hash /\ ledger[i].status = "confirmed"

\* C26: a cache record has on_chain = true only if the chain submission
\* with its poe_hash is confirmed, and recording a PoD again for an
\* existing poe_hash leaves the flag of the record as it is.
C26_OnChainOnlyIfConfirmed ==
    [][/\ \A n \in 1..Len(pods_poe') : ~FlaggedUnconfirmed(n)'
       /\ completed' > completed =>
             \A n \in 1..Len(pods_poe) : pods_poe'[n].on_chain = pods_poe[n].on_chain]_vars

(***************************************************************************)
(* Claims about the bounded batches of a cycle.                            *)
(***************************************************************************)
\* the ids a ledger row can have: an add_to_ledger row and a
\* chain-submission row per recorded PoD
RowIds == 1..(2 * MaxPods)

\* a cycle begins
CycleBegins == \E r \in Runners : cyc[r].pc = "enq_scan"

\* row i is a queued chain submission that push_to_chain accepts
QueuedPushable(i) ==
    /\ i <= Len(ledger)
    /\ ledger[i].status = "queued"
    /\ ledger[i].poe_hash # None
    /\ PoeDataBytes(ledger[i].poe_hash) = "ok"

\* C27: without an RPC endpoint (every push_to_chain of a payload within the
\* cap succeeds), if the loop keeps beginning cycles, every queued chain
\* submission with such a payload eventually leaves queued, whatever
\* queued entries with lower ids fail in every cycle.
C27_NoSubmitStarvation ==
    (rpc = "none" /\ []<>CycleBegins) =>
        \A i \in RowIds : (QueuedPushable(i) ~> ~QueuedPushable(i))

(***************************************************************************)
(* SpecScan: enqueue_missing_poe with the LIMIT of its scan scaled down to *)
(* ScaledScanLimit, so that one PoD more than a scan returns can be        *)
(* recorded.  Cycles are run through POST /chain/cycle, no RPC endpoint is *)
(* configured.                                                             *)
(***************************************************************************)
ScaledScanLimit == 2

MaxRecords == ScaledScanLimit + 1

\* every cache record that is off chain has a chain-submission row
AllEnqueued ==
    LET offchain == {pods_poe[n].poe_hash :
                        n \in {m \in 1..Len(pods_poe) : ~pods_poe[m].on_chain}}
        enqueued == {ledger[i].poe_hash : i \in ChainRows(ledger)}
    IN  offchain \subseteq enqueued

\* one PoD payload for each record
ScanData == {[event |-> k] : k \in 1..MaxRecords}

RecordScanned(data, dbok) ==
    /\ completed < MaxRecords
    /\ RecordPodBody(data, dbok)

EnqueueScanScaled(r, dbok) == EnqueueScanUpTo(r, dbok, ScaledScanLimit)

NextScan ==
    \/ \E data \in ScanData, dbok \in BOOLEAN : RecordScanned(data, dbok)
    \/ StartCycle("manual", FALSE)
    \/ \E dbok \in BOOLEAN : EnqueueScanScaled("manual", dbok)
    \/ \E dbok \in BOOLEAN : EnqueueInsert("manual", dbok)
    \/ \E dbok \in BOOLEAN : SubmitSelect("manual", dbok)
    \/ \E node \in NodeStates, dbok \in BOOLEAN : SubmitRow("manual", node, dbok)
    \/ \E dbok \in BOOLEAN : VerifySelect("manual", dbok)
    \/ \E receipt \in Receipts, dbok \in BOOLEAN : VerifyRow("manual", receipt, dbok)
    \/ \E dbok \in BOOLEAN : VerifyFlag("manual", dbok)

SpecScan == InitSim /\ [][NextScan]_vars

\* a cycle that was begun runs to its end: orchestration_cycle awaits its
\* three steps one after the other
ScanFairness ==
    /\ WF_vars(\E dbok \in BOOLEAN : EnqueueScanScaled("manual", dbok))
    /\ WF_vars(\E dbok \in BOOLEAN : EnqueueInsert("manual", dbok))
    /\ WF_vars(\E dbok \in BOOLEAN : SubmitSelect("manual", dbok))
    /\ WF_vars(\E node \in NodeStates, dbok \in BOOLEAN : SubmitRow("manual", node, dbok))
    /\ WF_vars(\E dbok \in BOOLEAN : VerifySelect("manual", dbok))
    /\ WF_vars(\E receipt \in Receipts, dbok \in BOOLEAN : VerifyRow("manual", receipt, dbok))
    /\ WF_vars(\E dbok \in BOOLEAN : VerifyFlag("manual", dbok))

SpecScanFair == SpecScan /\ ScanFairness

\* C28: if cycles keep beginning, every cache record that is off chain has a
\* chain-submission row again and again (each one eventually gets its row),
\* also when as many older records as the scan returns stay off chain.
C28_NoScanStarvation == ([]<>CycleBegins) => []<>AllEnqueued
(***************************************************************************)
(* SpecQueue: the orchestrator started on a ledger that holds one entry,   *)
(* with more tasks submitted than max_concurrent_tasks; the store is       *)
(* reachable.                                                              *)
(***************************************************************************)
\* a type whose handler suspends, a type whose handler does not, and a type
\* without handler
QueuedTypes == {"pod_poe_flow", "create_item", "unknown"}

NextQueue ==
    \/ \E data \in TaskData : FirstPod(data)
    \/ Start(TRUE)
    \/ Stop
    \/ \E task_type \in QueuedTypes, data \in TaskData : SubmitTask(task_type, data)
    \/ \E task_id \in TaskIds : QueuePut(task_id)
    \/ ProcessTasks
    \/ \E task_id \in TaskIds, ok \in BOOLEAN : ExecuteTaskBegin(task_id, ok, TRUE)
    \/ \E task_id \in TaskIds : ExecuteTaskEnd(task_id, TRUE)

SpecQueue == InitSim /\ [][NextQueue]_vars

\* the event loop runs every coroutine that is ready: the scheduled
\* tasks_queue.put, the loop of process_tasks, the execute_task coroutines
\* it created, and a handler whose sleep has ended
QueueFairness ==
    /\ WF_vars(\E task_id \in TaskIds : QueuePut(task_id))
    /\ WF_vars(ProcessTasks)
    /\ WF_vars(\E task_id \in TaskIds, ok \in BOOLEAN : ExecuteTaskBegin(task_id, ok, TRUE))
    /\ WF_vars(\E task_id \in TaskIds : ExecuteTaskEnd(task_id, TRUE))

SpecQueueFair == SpecQueue /\ QueueFairness

\* the orchestrator is running with its dispatcher
DispatcherRuns == is_running /\ "task_processor" \in background_tasks

\* every task accepted by submit_task is completed or failed
AllSettled ==
    \A task_id \in 1..Len(tasks) : tasks[task_id].status \in {"completed", "failed"}

\* C29: unless the orchestrator stops running again and again, every task
\* accepted by submit_task is completed or failed again and again (while the
\* orchestrator keeps running with its dispatcher, each accepted task
\* eventually reaches completed or failed), also a task that the dispatcher
\* put back on the queue.
C29_NoTaskLost == []<>(~DispatcherRuns \/ AllSettled)

\* max_concurrent_tasks tasks are active and the dispatcher holds a pending
\* task that it puts back on the queue in every turn of its loop
C29_Witness ==
    /\ DispatcherRuns
    /\ Cardinality(active_tasks) = max_concurrent_tasks
    /\ Len(tasks_queue) > 0
    /\ tasks[Head(tasks_queue)].status = "pending"
\* startup_event runs start() on an empty ledger and the store answers
StartsOnEmptyLedger ==
    /\ served = "new" /\ served' = "up"
    /\ ~is_running
    /\ ledger = <<>>
    /\ faults' = faults

\* C30: when the application starts the orchestrator with a reachable store
\* and an empty ledger, the result of verify_chain_integrity carries entries,
\* verified and broken_links, start() leaves the orchestrator state running,
\* and the dispatcher and the reconciliation loop are started.
C30_EmptyLedgerStartSucceeds ==
    [][StartsOnEmptyLedger =>
          /\ {"entries", "verified", "broken_links"} \subseteq
                 DOMAIN VerifyChainIntegrity(ledger, TRUE, now)
          /\ health_status'.orchestrator = "running"
          /\ "task_processor" \in background_tasks'
          /\ loop_task'.pc = "ready"]_vars
====
